---- MODULE Spec2Model ----
(***************************************************************************)
(* Package-operation orchestration of the Calamares modules pacman and     *)
(* paru (usr/lib/calamares/modules/{pacman,paru}/main.py) together with    *)
(* the existence filter they share (modules/pacstrap/pkgcheck.py).         *)
(*                                                                         *)
(* A package name is a sequence of atoms (its text cut at the places the   *)
(* code looks at: "$", "{", "}", the word LOCALE, ...).  A package entry   *)
(* is a bare string or a record with a package field and optional          *)
(* pre-script / post-script.  An operation is a Python dict: an ordered    *)
(* sequence of key/value pairs with distinct keys.  A string value (the    *)
(* "source" tag) is the sequence of its characters, which is what          *)
(* iterating over it in subst_locale yields.                               *)
(***************************************************************************)
EXTENDS Integers, Sequences, FiniteSets, TLC

\* ------------------------------------------------------------------ bounds
\* number of operations in the operation list handed to run()
MaxOps == 2
\* largest configured retry count (num_retries ranges over -1..MaxRetries)
MaxRetries == 1
\* output lines one backend invocation delivers to the line callback
MaxLines == 2
\* length of a package list handed to subst_locale on its own
MaxLen == 2

\* exit code of the synthetic "timed out" error (paru/main.py:263)
TimeoutExitCode == 124

\* ------------------------------------------------------------------ names
\* value of dict.get("package") when the key is absent (Python None)
NoName == <<"None">>

IsIdent(atom) == atom \notin {"$", "{", "}", "-", " ", "None"}

RECURSIVE IdentRun(_)
\* length of the longest prefix of s that is one identifier
IdentRun(s) ==
    IF s = <<>> \/ ~IsIdent(Head(s)) THEN 0 ELSE 1 + IdentRun(Tail(s))

DropSeq(s, n) == SubSeq(s, n + 1, Len(s))

\* (mutant) only the first ${LOCALE} is replaced
safe_substitute_first(s, loc) ==
    LET at == {i \in 1..(Len(s) - 3) : SubSeq(s, i, i + 3) = <<"$", "{", "LOCALE", "}">>}
    IN  IF at = {} THEN s
        ELSE LET i == CHOOSE x \in at : \A y \in at : x <= y
             IN  SubSeq(s, 1, i - 1) \o <<loc>> \o SubSeq(s, i + 4, Len(s))

RECURSIVE safe_substitute(_, _)
\* string.Template(name).safe_substitute(LOCALE=loc): "$$" is an escaped
\* dollar, "$LOCALE" and "${LOCALE}" are replaced, every other "$..." is
\* left verbatim.
safe_substitute(s, loc) ==
    IF s = <<>> THEN <<>>
    ELSE IF Head(s) # "$" THEN <<Head(s)>> \o safe_substitute(Tail(s), loc)
    ELSE LET t == Tail(s)
             n == IdentRun(t)
             b == IF t # <<>> /\ Head(t) = "{" THEN IdentRun(Tail(t)) ELSE 0
         IN  IF t # <<>> /\ Head(t) = "$"
                THEN <<"$">> \o safe_substitute(Tail(t), loc)
             ELSE IF n > 0
                THEN (IF SubSeq(t, 1, n) = <<"LOCALE">>
                         THEN <<loc>> ELSE <<"$">> \o SubSeq(t, 1, n))
                     \o safe_substitute(DropSeq(t, n), loc)
             ELSE IF b > 0 /\ Len(t) >= b + 2 /\ t[b + 2] = "}"
                THEN (IF SubSeq(t, 2, b + 1) = <<"LOCALE">>
                         THEN <<loc>> ELSE <<"$">> \o SubSeq(t, 1, b + 2))
                     \o safe_substitute(DropSeq(t, b + 2), loc)
             ELSE <<"$">> \o safe_substitute(t, loc)

\* the Python test  "LOCALE" in packagename
ContainsLOCALE(name) == \E i \in 1..Len(name) : name[i] = "LOCALE"

\* ---------------------------------------------------------------- entries
Str(name) == [t |-> "str", package |-> name, pre |-> "", post |-> ""]
Rec(name, pre, post) == [t |-> "rec", package |-> name, pre |-> pre, post |-> post]

\* a Python string seen as the list of its characters
Chars(text) == [i \in 1..Len(text) |-> Str(<<text[i]>>)]

\* (mutant) an unset locale is taken as it is
EffectiveLocale_raw(loc) == loc

\* libcalamares.globalstorage.value("locale") or "en"
EffectiveLocale(loc) == IF loc = "" THEN "en" ELSE loc

\* the name subst_locale gives one entry, NoName when the entry is dropped
resolve_name(e, loc) ==
    IF e.package = NoName THEN NoName
    ELSE IF EffectiveLocale(loc) # "en"
        THEN safe_substitute(e.package, EffectiveLocale(loc))
    ELSE IF ContainsLOCALE(e.package) THEN NoName
    ELSE e.package

\* subst_locale(plist): the list it returns
subst_locale(plist, loc) ==
    LET kept == SelectSeq(plist, LAMBDA e : resolve_name(e, loc) # NoName)
    IN  [i \in 1..Len(kept) |-> [kept[i] EXCEPT !.package = resolve_name(kept[i], loc)]]

\* subst_locale(plist): the list passed in, after the call (a record that is
\* kept has its package field overwritten in place)
subst_locale_arg(plist, loc) ==
    [i \in 1..Len(plist) |->
        IF plist[i].t = "rec" /\ resolve_name(plist[i], loc) # NoName
            THEN [plist[i] EXCEPT !.package = resolve_name(plist[i], loc)]
            ELSE plist[i]]

\* ---------------------------------------------------------------- pkgcheck
pkg_name_of(item) == item.package

\* "not name": None or the empty string
IsEmptyName(name) == name = NoName \/ name = <<>>

RECURSIVE Reverse(_)
Reverse(s) == IF s = <<>> THEN <<>> ELSE Append(Reverse(Tail(s)), Head(s))

\* (mutant) the filter looks the name up among the packages only
filter_operation_list_pkgs(items, repo_pkgs, repo_groups) ==
    SelectSeq(items, LAMBDA item : pkg_name_of(item) \in repo_pkgs)

\* (mutant) the filter hands the survivors back last one first
filter_operation_list_reversed(items, repo_pkgs, repo_groups) ==
    Reverse(SelectSeq(items, LAMBDA item :
        pkg_name_of(item) \in repo_pkgs \/ pkg_name_of(item) \in repo_groups))

\* (mutant) nothing is filtered out
filter_operation_list_all(items, repo_pkgs, repo_groups) == items

filter_operation_list(items, repo_pkgs, repo_groups) ==
    SelectSeq(items, LAMBDA item :
        /\ ~IsEmptyName(pkg_name_of(item))
        /\ (pkg_name_of(item) \in repo_pkgs \/ pkg_name_of(item) \in repo_groups))

filter_keys == {"install", "try_install", "remove", "try_remove"}

\* one key of one operation, as preprocess_operations rewrites it
preprocess_value(key, raw_list, loc, repo_pkgs, repo_groups) ==
    IF key \in filter_keys
        THEN filter_operation_list(subst_locale(raw_list, loc), repo_pkgs, repo_groups)
        ELSE subst_locale(raw_list, loc)

\* (mutant) every key is counted
preprocess_count_all(key, new_list) == Len(new_list)

\* what one key adds to the total
preprocess_count(key, new_list) ==
    IF key \in filter_keys \/ key = "localInstall" THEN Len(new_list) ELSE 0

preprocess_op(op, loc, repo_pkgs, repo_groups) ==
    [i \in 1..Len(op) |->
        [key |-> op[i].key,
         val |-> preprocess_value(op[i].key, op[i].val, loc, repo_pkgs, repo_groups)]]

\* any(isinstance(v, list) and len(v) for v in new_op.values())
op_is_kept(new_op) == \E i \in 1..Len(new_op) : Len(new_op[i].val) > 0

RECURSIVE SumSeq(_)
SumSeq(s) == IF s = <<>> THEN 0 ELSE Head(s) + SumSeq(Tail(s))

op_total(new_op) ==
    SumSeq([i \in 1..Len(new_op) |-> preprocess_count(new_op[i].key, new_op[i].val)])

\* preprocess_operations: the new operation list ...
preprocess_operations(ops, loc, repo_pkgs, repo_groups) ==
    SelectSeq([i \in 1..Len(ops) |-> preprocess_op(ops[i], loc, repo_pkgs, repo_groups)],
              op_is_kept)

\* ... and the total, which counts every operation, kept or dropped
preprocess_total(ops, loc, repo_pkgs, repo_groups) ==
    SumSeq([i \in 1..Len(ops) |->
               op_total(preprocess_op(ops[i], loc, repo_pkgs, repo_groups))])


\* ------------------------------------------------------- source selection
Lower(ch) == IF ch = "P" THEN "p" ELSE IF ch = "F" THEN "f" ELSE ch

\* text of entry.get("source", ""), lower-cased
source_of(op) ==
    LET at == {i \in 1..Len(op) : op[i].key = "source"}
    IN  IF at = {} THEN <<>>
        ELSE LET v == op[CHOOSE i \in at : TRUE].val
             IN  [j \in 1..Len(v) |-> Lower(v[j].package[1])]

\* the Python test  word in text, on character sequences
Contains(text, word) ==
    \E i \in 0..(Len(text) - Len(word)) : SubSeq(text, i + 1, i + Len(word)) = word

ParuWord == <<"p", "a", "r", "u">>
FlatpakWord == <<"f", "l", "a", "t", "p", "a", "k">>

\* (mutant) pacman leaves out the flatpak operations only
pacman_selects_not_flatpak(op) == ~Contains(source_of(op), FlatpakWord)

\* pacman/main.py: operations with a paru or flatpak source are left out
pacman_selects(op) ==
    ~(Contains(source_of(op), ParuWord) \/ Contains(source_of(op), FlatpakWord))

\* paru/main.py: only operations with a paru source are taken
paru_selects(op) == Contains(source_of(op), ParuWord)

\* paru/main.py run(): total over every value of every operation
paru_total(ops, loc) ==
    SumSeq([i \in 1..Len(ops) |->
              SumSeq([j \in 1..Len(ops[i]) |-> Len(subst_locale(ops[i][j].val, loc))])])

\* the operation list after the subst_locale calls of that loop
paru_total_arg(ops, loc) ==
    [i \in 1..Len(ops) |->
        [j \in 1..Len(ops[i]) |->
            [ops[i][j] EXCEPT !.val = subst_locale_arg(ops[i][j].val, loc)]]]

\* ------------------------------------------------------------ input domain
NameA == <<"a">>
NameG == <<"g">>
NameM == <<"m">>
NameL == <<"l", "-", "$", "{", "LOCALE", "}">>

\* the answers of  pacman -Slq  and  pacman -Sgq
RepoPkgs == {NameA, <<"l", "-", "fr">>}
RepoGroups == {NameG}

KV(k, v) == [key |-> k, val |-> v]

Bodies ==
    { << KV("install", <<Str(NameA), Str(NameM)>>) >>,
      << KV("try_remove", <<Str(NameA)>>),
         KV("install", <<Rec(NameG, "pre", "post")>>) >>,
      << KV("try_install", <<Rec(NameA, "pre", "post"), Str(NameL)>>),
         KV("remove", <<Str(NameG)>>) >>,
      << KV("localInstall", <<Str(NameM)>>), KV("bogus", <<Str(NameA)>>) >>,
      << KV("remove", <<Str(NameM)>>) >> }

SourceTags ==
    { Chars(<<"n", "e", "t">>), Chars(<<"P", "a", "r", "u">>),
      Chars(<<"f", "l", "a", "t", "p", "a", "k">>) }

\* an operation whose keys come in sorted order, the source tag before try_install
SourceFirst ==
    { << KV("source", Chars(<<"n", "e", "t">>)), KV("try_install", <<Str(NameA)>>) >> }

Operations ==
    Bodies \cup { b \o << KV("source", t) >> : b \in Bodies, t \in SourceTags }
           \cup SourceFirst

RECURSIVE SeqsUpTo(_, _)
SeqsUpTo(S, n) ==
    IF n = 0 THEN { <<>> }
    ELSE LET shorter == SeqsUpTo(S, n - 1)
         IN  shorter \cup { Append(s, x) : s \in shorter, x \in S }

OperationLists == SeqsUpTo(Operations, MaxOps)


\* =================================================================== state
VARIABLES
    module,                 \* which main.py runs: "pacman" or "paru"
    locale,                 \* globalstorage "locale"
    hasInternet,            \* globalstorage "hasInternet"
    online,                 \* globalstorage "online"
    num_retries,            \* self.pacman_num_retries / self.paru_num_retries
    paru_timeout,           \* self.paru_timeout
    operations,             \* the local variable operations of run()
    total_packages, completed_packages, group_packages, mode_packages,
    custom_status_message,
    in_package_changes, progress_fraction,      \* fields of the manager
    pc,                     \* where the control thread stands
    who,                    \* caller of the retry loop in progress
    opIdx, keyIdx, pkgIdx,  \* operation, key and package being processed
    package_list,           \* the local variable package_list of run_operations
    attempts,               \* pacman_count / attempts
    last_exc,               \* last_exc of run_paru
    cmd,                    \* the command most recently handed to the backend
    lines,                  \* lines the invocation in progress has delivered
    th,                     \* the thread of the attempt in progress
    result_container,       \* result_container["exc"] of the current binding
    orphans,                \* threads detached by a timeout that may still run:
                            \* cur, how many of the retry loop in progress;
                            \* old, whether any of an earlier install / remove
    result,                 \* what run() returned
    sink,                   \* what the progress sink has received
    call,                   \* what the environment saw of the retry loop in progress
    hist                    \* what happened so far in the run

envVars == <<module, locale, hasInternet, online>>
mgrVars == <<num_retries, paru_timeout>>
cntVars == <<total_packages, completed_packages, group_packages, mode_packages>>
cbVars  == <<custom_status_message, in_package_changes, progress_fraction>>
posVars == <<opIdx, keyIdx, pkgIdx, package_list>>
thrVars == <<th, result_container, orphans>>

vars == <<module, locale, hasInternet, online, num_retries, paru_timeout, operations,
          total_packages, completed_packages, group_packages, mode_packages,
          custom_status_message, in_package_changes, progress_fraction,
          pc, who, opIdx, keyIdx, pkgIdx, package_list, attempts, last_exc,
          cmd, lines, th, result_container, orphans, result, sink, call, hist>>

\* ------------------------------------------------------------------ values
NoCmd == [verb |-> "", pkgs |-> <<>>]
Cmd(verb, pkgs) == [verb |-> verb, pkgs |-> pkgs]

NoExc == [kind |-> "None", rc |-> 0]
CalledProcessError(rc) == [kind |-> "CalledProcessError", rc |-> rc]

Running == [status |-> "running", title |-> "", cmd |-> NoCmd, rc |-> 0]
Success == [status |-> "ok", title |-> "", cmd |-> NoCmd, rc |-> 0]
Failure(title, c, rc) == [status |-> "error", title |-> title, cmd |-> c, rc |-> rc]

\* exit codes a failing command may return
ExitCodes == {1}

NoCall == [who |-> "", inv |-> 0, fails |-> 0, timeouts |-> 0, kills |-> 0,
           ret |-> "", rc |-> 0]
NewCall(w) == [NoCall EXCEPT !.who = w, !.ret = "running"]

\* a fraction completed/total is the pair of its terms; <<0, 0>>: nothing pushed
Fraction(n, d) == <<n, d>>
One == Fraction(1, 1)
IsOne(f) == f[2] > 0 /\ f[1] = f[2]
InUnit(f) == f[2] > 0 /\ 0 <= f[1] /\ f[1] <= f[2]

\* libcalamares.job.setprogress(f)
setprogress(s, f) ==
    [s EXCEPT !.last = f,
              !.ones = IF IsOne(f) /\ @ < 3 THEN @ + 1 ELSE @,
              !.bad = @ \/ ~InUnit(f)]

\* the guarded push  if total_packages > 0: setprogress(completed / total)
push_progress(s, completed, total) ==
    IF total > 0 THEN setprogress(s, Fraction(completed, total)) ELSE s

\* (mutant) the group is looked at before the custom message
pretty_status_message_group_first(custom, group, mode, completed, total) ==
    IF group # 0 /\ mode = "INSTALL" THEN [msg |-> "Installing", args |-> <<group>>]
    ELSE IF group # 0 /\ mode = "REMOVE" THEN [msg |-> "Removing", args |-> <<group>>]
    ELSE IF custom # "None" THEN [msg |-> custom, args |-> <<>>]
    ELSE IF group = 0 /\ total > 0
        THEN [msg |-> "Processing packages", args |-> <<completed, total>>]
    ELSE [msg |-> "Install packages.", args |-> <<>>]

\* pretty_status_message(): the message and the numbers formatted into it
pretty_status_message(custom, group, mode, completed, total) ==
    IF custom # "None" THEN [msg |-> custom, args |-> <<>>]
    ELSE IF group = 0
        THEN IF total > 0
                THEN [msg |-> "Processing packages", args |-> <<completed, total>>]
                ELSE [msg |-> "Install packages.", args |-> <<>>]
    ELSE IF mode = "INSTALL" THEN [msg |-> "Installing", args |-> <<group>>]
    ELSE IF mode = "REMOVE" THEN [msg |-> "Removing", args |-> <<group>>]
    ELSE [msg |-> "Install packages.", args |-> <<>>]

ExecKeys == {"install", "try_install", "remove", "try_remove", "localInstall"}
TryKeys == {"try_install", "try_remove"}
InstallKeys == {"install", "try_install", "localInstall"}
RemoveKeys == {"remove", "try_remove"}

CurEntry == operations[opIdx]
CurKey == CurEntry[keyIdx].key

\* operation_install / operation_remove of pacman hand a list of plain strings
\* to one command; everything else goes package by package
IsBatch(m, key, plist) ==
    /\ m = "pacman"
    /\ key \in {"install", "remove", "localInstall"}
    /\ \A i \in 1..Len(plist) : plist[i].t = "str"

Batch == IsBatch(module, CurKey, package_list)

\* where install_package / remove_package starts for package i of plist
NextSlot(plist, i) ==
    IF i > Len(plist) THEN "end_key"
    ELSE IF plist[i].t = "rec" /\ plist[i].pre # "" THEN "pre"
    ELSE "core"

Init ==
    /\ module \in {"pacman", "paru"}
    /\ locale \in {"", "fr"}
    /\ hasInternet \in BOOLEAN
    /\ online = FALSE
    /\ num_retries = 0
    /\ paru_timeout = 0
    /\ operations = <<>>
    /\ total_packages = 0
    /\ completed_packages = 0
    /\ group_packages = 0
    /\ mode_packages = "None"
    /\ custom_status_message = "None"
    /\ in_package_changes = FALSE
    /\ progress_fraction = Fraction(0, 1)
    /\ pc = "start"
    /\ who = ""
    /\ opIdx = 0
    /\ keyIdx = 0
    /\ pkgIdx = 0
    /\ package_list = <<>>
    /\ attempts = 0
    /\ last_exc = NoExc
    /\ cmd = NoCmd
    /\ lines = 0
    /\ th = "none"
    /\ result_container = NoExc
    /\ orphans = [cur |-> 0, old |-> FALSE]
    /\ result = Running
    /\ sink = [last |-> Fraction(0, 0), ones |-> 0, bad |-> FALSE, terminal |-> 0]
    /\ call = NoCall
    /\ hist = [strictFail |-> FALSE, failCmd |-> NoCmd, failRc |-> 0,
               completedAtFail |-> 0, tryFail |-> FALSE, handled |-> 0,
               cfg |-> {}]


\* ------------------------------------------------------------ continuations
\* the command the code is about to run, from where it stands
core_command ==
    LET names == IF Batch THEN [i \in 1..Len(package_list) |-> package_list[i].package]
                 ELSE <<package_list[pkgIdx].package>>
        verb == IF CurKey \in RemoveKeys THEN "-Rs"
                ELSE IF CurKey = "localInstall" THEN "-U" ELSE "-S"
    IN  Cmd(verb, names)

command ==
    IF who = "update_db" THEN Cmd("-Sy", <<>>)
    ELSE IF who = "update_system" THEN Cmd("-Su", <<>>)
    ELSE core_command

\* (mutant) the loop guard off by one
pacman_retry_allowed_lt(count, retries) == count < retries

\* run_pacman: while pacman_count <= self.pacman_num_retries
pacman_retry_allowed(count, retries) == count <= retries

\* (mutant) the loop guard off by one
paru_retry_allowed_lt(count, retries) == count < retries

\* run_paru: while attempts <= self.paru_num_retries
paru_retry_allowed(count, retries) == count <= retries

\* (mutant) the timeout reported with the exit code of an ordinary failure
timeout_exc_plain == CalledProcessError(1)

\* subprocess.CalledProcessError(returncode=124, cmd=command)
timeout_exc == CalledProcessError(TimeoutExitCode)

retry_allowed(count, retries) ==
    IF module = "pacman" THEN pacman_retry_allowed(count, retries)
                         ELSE paru_retry_allowed(count, retries)

\* (mutant) run() returns without the final push
terminal_push_missing(s) == s

\* run(): libcalamares.job.setprogress(1.0) before return None
terminal_push(s) == [setprogress(s, One) EXCEPT !.terminal = @ + 1]

\* what the run has seen once a command or script of the package in hand has
\* failed for good under pacman: under a try_ key, or under a strict key
Failed(h, c, rc) ==
    IF module # "pacman" \/ who \in {"update_db", "update_system"} THEN h
    ELSE IF CurKey \in TryKeys THEN [h EXCEPT !.tryFail = TRUE]
    ELSE [h EXCEPT !.strictFail = TRUE, !.failCmd = c, !.failRc = rc,
                   !.completedAtFail = completed_packages]

\* (mutant) paru lets the error of a strict key through, as pacman does
absorbs_failure_try_only(m, key) == key \in TryKeys

\* (mutant) every error is swallowed, also under pacman's strict keys
absorbs_failure_always(m, key) == TRUE

\* (mutant) pacman's try_ keys let the error through
absorbs_failure_paru_only(m, key) == m = "paru"

\* whether a CalledProcessError leaving install_package / remove_package is
\* caught before it reaches run(): always in paru, for the try_ keys in pacman
absorbs_failure(m, key) == m = "paru" \/ key \in TryKeys

\* (mutant) every key counts for one
key_progress_one(plist) == 1

\* len(package_list), which run_operations adds to completed_packages
key_progress(plist) == Len(plist)

\* the retry loop is entered
CallBegin(w) ==
    /\ pc' = "call"
    /\ who' = w
    /\ attempts' = 0
    /\ last_exc' = NoExc
    /\ call' = NewCall(w)

\* the package in hand is finished: on to the next one, or to the end of the key
PkgDone(h) ==
    /\ result' = result
    /\ IF Batch
          THEN pc' = "end_key" /\ pkgIdx' = pkgIdx /\ hist' = h
          ELSE /\ pkgIdx' = pkgIdx + 1
               /\ pc' = NextSlot(package_list, pkgIdx + 1)
               /\ hist' = [h EXCEPT !.handled =
                              IF pkgIdx + 1 <= Len(package_list) THEN @ + 1 ELSE @]

Fail(title, c, rc) ==
    /\ pc' = "done"
    /\ result' = Failure(title, c, rc)
    /\ pkgIdx' = pkgIdx

\* a CalledProcessError leaves install_package / remove_package
PkgRaise(c, rc) ==
    IF absorbs_failure(module, CurKey)
        THEN PkgDone(Failed(hist, c, rc))
        ELSE Fail("Package Manager error", c, rc) /\ hist' = Failed(hist, c, rc)

\* the retry loop returns to its caller; its frame is gone
AfterReturn(h) ==
    /\ who' = ""
    /\ attempts' = 0
    /\ last_exc' = NoExc
    /\ IF who = "update_db" THEN pc' = "update_system" /\ hist' = h /\ UNCHANGED <<pkgIdx, result>>
       ELSE IF who = "update_system" THEN pc' = "load" /\ hist' = h /\ UNCHANGED <<pkgIdx, result>>
       ELSE IF ~Batch /\ package_list[pkgIdx].t = "rec" /\ package_list[pkgIdx].post # ""
           THEN pc' = "post" /\ hist' = h /\ UNCHANGED <<pkgIdx, result>>
       ELSE PkgDone(h)

\* run_pacman raises the CalledProcessError of its last invocation
AfterRaise(c, rc) ==
    /\ who' = ""
    /\ attempts' = 0
    /\ last_exc' = NoExc
    /\ IF who \in {"update_db", "update_system"}
          THEN Fail("Package Manager error", c, rc) /\ hist' = hist
          ELSE PkgRaise(c, rc)

\* the detached threads once the retry loop in progress has returned
Detached(o) == [cur |-> 0, old |-> o.old \/ (o.cur > 0 /\ who = "core")]

\* ------------------------------------------------------------------ actions
\* (mutant) the connectivity guard never ends the run
skipped_never(skip_this, internet) == FALSE

\* run(): if skip_this and not globalstorage.value("hasInternet")
skipped(skip_this, internet) == skip_this /\ ~internet

\* run(): if update_db and globalstorage.value("hasInternet"), and the same
\* for update_system
runs_update(flag, internet) == flag /\ internet

\* the job configuration flags run() has read as true, kept until the
\* operation list is loaded
ReadFlag(h, name, flag) == [h EXCEPT !.cfg = IF flag THEN @ \cup {name} ELSE @]

\* run(): backend guard, connectivity guard, construction of the manager
Start ==
    /\ pc = "start"
    /\ \E backend \in {"pacman", "paru"}, skip_this \in BOOLEAN,
          r \in -1..MaxRetries, t \in {0, 1} :
          IF backend # module
              THEN /\ pc' = "done"
                   /\ result' = Failure("Bad backend", NoCmd, 0)
                   /\ UNCHANGED <<num_retries, paru_timeout, cmd, hist>>
          ELSE IF skipped(skip_this, hasInternet)
              THEN /\ pc' = "done"
                   /\ result' = Success
                   /\ hist' = ReadFlag(hist, "skip_if_no_internet", skip_this)
                   /\ UNCHANGED <<num_retries, paru_timeout, cmd>>
          ELSE /\ pc' = "update_db"
               /\ result' = result
               /\ hist' = ReadFlag(hist, "skip_if_no_internet", skip_this)
               /\ num_retries' = r
               /\ paru_timeout' = IF module = "paru" THEN t ELSE 0
               /\ cmd' = IF module = "paru" THEN Cmd("chage", <<>>) ELSE cmd
    /\ UNCHANGED <<envVars, operations, cntVars, cbVars, posVars, who, attempts,
                   last_exc, lines, thrVars, sink, call>>

UpdateDb ==
    /\ pc = "update_db"
    /\ \E update_db \in BOOLEAN :
          /\ hist' = ReadFlag(hist, "update_db", update_db)
          /\ IF runs_update(update_db, hasInternet)
                THEN CallBegin("update_db")
                ELSE pc' = "update_system" /\ UNCHANGED <<who, attempts, last_exc, call>>
    /\ UNCHANGED <<envVars, mgrVars, operations, cntVars, cbVars, posVars, cmd,
                   lines, thrVars, result, sink>>

UpdateSystem ==
    /\ pc = "update_system"
    /\ \E update_system \in BOOLEAN :
          /\ hist' = ReadFlag(hist, "update_system", update_system)
          /\ IF runs_update(update_system, hasInternet)
                THEN CallBegin("update_system")
                ELSE pc' = "load" /\ call' = NoCall /\ UNCHANGED <<who, attempts, last_exc>>
    /\ UNCHANGED <<envVars, mgrVars, operations, cntVars, cbVars, posVars, cmd,
                   lines, thrVars, result, sink>>

\* (mutant) run() goes on to the operations whatever the total
nothing_to_do_never(total) == FALSE

\* run(): if not total_packages
nothing_to_do(total) == total = 0

\* (mutant) a failed package query is followed by the group query all the same
index_queries_all(outcome) == 2

\* build_repo_index: the queries it has started when it returns or raises;
\* pacman -Slq first, pacman -Sgq only if that one succeeded
index_queries(outcome) == IF outcome = "-Slq" THEN 1 ELSE 2

\* the counters as run() sets them once the total is known, and the way on:
\* return None at once when the total is zero, else the first operation
BeginRun(ops, total) ==
    /\ operations' = ops
    /\ mode_packages' = "None"
    /\ total_packages' = total
    /\ completed_packages' = 0
    /\ group_packages' = 0
    /\ custom_status_message' = "None"
    /\ IF nothing_to_do(total)
          THEN pc' = "done" /\ result' = Success /\ UNCHANGED <<opIdx, keyIdx>>
          ELSE pc' = "begin_key" /\ result' = result /\ opIdx' = 1 /\ keyIdx' = 1

\* run(): the operation list is read from the job configuration and the
\* global storage
Load ==
    /\ pc = "load"
    /\ call' = NoCall
    /\ operations' \in OperationLists
    /\ pc' = "select"
    /\ hist' = [hist EXCEPT !.cfg = {}]
    /\ UNCHANGED <<envVars, mgrVars, cntVars, cbVars, posVars, who, attempts,
                   last_exc, cmd, lines, thrVars, result, sink>>

\* run(): the operations of this backend are selected by their source tag;
\* pacman goes on to the repository index, paru counts and begins
Select ==
    /\ pc = "select"
    /\ IF module = "pacman"
          THEN /\ operations' = SelectSeq(operations, pacman_selects)
               /\ pc' = "index"
               /\ UNCHANGED <<cntVars, custom_status_message, result, opIdx, keyIdx>>
          ELSE LET sel == SelectSeq(operations, paru_selects)
               IN  BeginRun(paru_total_arg(sel, locale), paru_total(sel, locale))
    /\ UNCHANGED <<envVars, mgrVars, in_package_changes, progress_fraction, pkgIdx,
                   package_list, who, attempts, last_exc, cmd, lines, thrVars,
                   sink, call, hist>>

\* pacman run(): build_repo_index and preprocess_operations
Index ==
    /\ pc = "index"
    /\ module = "pacman"
    /\ \E outcome \in {"ok", "-Slq", "-Sgq"}, rc \in ExitCodes :
          /\ call' = [NoCall EXCEPT !.who = "index", !.inv = index_queries(outcome)]
          /\ IF outcome = "ok"
              THEN /\ cmd' = Cmd("-Sgq", <<>>)
                   /\ BeginRun(preprocess_operations(operations, locale, RepoPkgs, RepoGroups),
                               preprocess_total(operations, locale, RepoPkgs, RepoGroups))
              ELSE /\ cmd' = Cmd(outcome, <<>>)
                   /\ pc' = "done"
                   /\ result' = Failure("Repository metadata query failed", cmd', rc)
                   /\ UNCHANGED <<operations, cntVars, custom_status_message, opIdx, keyIdx>>
    /\ UNCHANGED <<envVars, mgrVars, in_package_changes, progress_fraction, pkgIdx,
                   package_list, who, attempts, last_exc, lines, thrVars,
                   sink, hist>>

\* run_operations: one key of the entry begins
BeginKey ==
    /\ pc = "begin_key"
    /\ call' = NoCall
    /\ LET key == CurKey
           plist == subst_locale(CurEntry[keyIdx].val, locale)
       IN  /\ package_list' = plist
           /\ operations' = [operations EXCEPT ![opIdx][keyIdx].val =
                                                  subst_locale_arg(@, locale)]
           /\ group_packages' = Len(plist)
           /\ mode_packages' = IF key \in InstallKeys THEN "INSTALL"
                               ELSE IF key \in RemoveKeys THEN "REMOVE"
                               ELSE mode_packages
           /\ sink' = IF key \in ExecKeys
                         THEN push_progress(sink, completed_packages, total_packages)
                         ELSE sink
           /\ IF key \notin ExecKeys
                 THEN pc' = "end_key" /\ pkgIdx' = 0 /\ hist' = hist
              ELSE IF IsBatch(module, key, plist)
                 THEN /\ pc' = "core"
                      /\ pkgIdx' = 0
                      /\ hist' = [hist EXCEPT !.handled = @ + Len(plist)]
              ELSE /\ pc' = NextSlot(plist, 1)
                   /\ pkgIdx' = 1
                   /\ hist' = [hist EXCEPT !.handled = IF plist # <<>> THEN @ + 1 ELSE @]
    /\ UNCHANGED <<envVars, mgrVars, total_packages, completed_packages, cbVars,
                   opIdx, keyIdx, who, attempts, last_exc, cmd, lines, thrVars,
                   result>>

\* _run_script(packagedata.get("pre-script", ""))
PreScript ==
    /\ pc = "pre"
    /\ call' = NoCall
    /\ cmd' = Cmd("script", <<package_list[pkgIdx].pre>>)
    /\ \E ok \in BOOLEAN, rc \in ExitCodes :
          IF ok THEN pc' = "core" /\ UNCHANGED <<pkgIdx, result, hist>>
                ELSE PkgRaise(cmd', rc)
    /\ UNCHANGED <<envVars, mgrVars, operations, cntVars, cbVars, opIdx, keyIdx,
                   package_list, who, attempts, last_exc, lines, thrVars, sink>>

\* _run_script(packagedata.get("post-script", ""))
PostScript ==
    /\ pc = "post"
    /\ call' = NoCall
    /\ cmd' = Cmd("script", <<package_list[pkgIdx].post>>)
    /\ \E ok \in BOOLEAN, rc \in ExitCodes :
          IF ok THEN PkgDone(hist) ELSE PkgRaise(cmd', rc)
    /\ UNCHANGED <<envVars, mgrVars, operations, cntVars, cbVars, opIdx, keyIdx,
                   package_list, who, attempts, last_exc, lines, thrVars, sink>>

\* install() / remove(): reset_progress, then the retry loop is entered
CoreBegin ==
    /\ pc = "core"
    /\ in_package_changes' = FALSE
    /\ progress_fraction' = IF total_packages > 0
                               THEN Fraction(completed_packages, total_packages)
                               ELSE Fraction(0, 1)
    /\ CallBegin("core")
    /\ UNCHANGED <<envVars, mgrVars, operations, cntVars, custom_status_message,
                   posVars, cmd, lines, thrVars, result, sink, hist>>

\* one synchronous invocation of the backend command starts
Invoke ==
    /\ pc = "call"
    /\ retry_allowed(attempts, num_retries)
    /\ module = "pacman" \/ paru_timeout = 0
    /\ attempts' = attempts + 1
    /\ cmd' = command
    /\ call' = [call EXCEPT !.inv = @ + 1]
    /\ lines' = 0
    /\ pc' = "running"
    /\ UNCHANGED <<envVars, mgrVars, operations, cntVars, cbVars, posVars, who,
                   last_exc, thrVars, result, sink, hist>>

\* line_cb(line): the manager's flag, the status message and the sink after a line
line_flag(kind, flag) ==
    IF kind = "section" THEN TRUE ELSE IF kind = "marker" THEN FALSE ELSE flag

\* (mutant) every line that ends in an ellipsis is shown, whatever the section
line_pushes_any(kind, flag) == kind = "ellipsis"

line_pushes(kind, flag) == kind = "ellipsis" /\ flag

LineKinds == {"section", "marker", "ellipsis", "plain"}

LineCb(kind) ==
    /\ in_package_changes' = line_flag(kind, in_package_changes)
    /\ custom_status_message' = IF line_pushes(kind, in_package_changes)
                                   THEN "status" ELSE custom_status_message
    /\ sink' = IF line_pushes(kind, in_package_changes)
                  THEN setprogress(sink, progress_fraction) ELSE sink
    /\ progress_fraction' = progress_fraction

\* the synchronous invocation in progress delivers one output line to self.line_cb
Line ==
    /\ pc = "running"
    /\ who = "core"
    /\ lines < MaxLines
    /\ lines' = lines + 1
    /\ \E kind \in LineKinds : LineCb(kind)
    /\ UNCHANGED <<envVars, mgrVars, operations, cntVars, posVars, pc, who, attempts,
                   last_exc, cmd, thrVars, result, call, hist>>

\* the synchronous invocation in progress ends; the loop returns, retries, or
\* gives up
Finish ==
    /\ pc = "running"
    /\ lines' = 0
    /\ \E ok \in BOOLEAN, rc \in ExitCodes :
          IF ok
              THEN /\ call' = [call EXCEPT !.ret = IF module = "pacman" THEN "ok" ELSE "True"]
                   /\ AfterReturn(hist)
          ELSE IF retry_allowed(attempts, num_retries)
              THEN /\ call' = [call EXCEPT !.fails = @ + 1]
                   /\ last_exc' = IF module = "paru" THEN CalledProcessError(rc) ELSE last_exc
                   /\ pc' = "call"
                   /\ UNCHANGED <<pkgIdx, result, hist, who, attempts>>
          ELSE IF module = "pacman"
              THEN /\ call' = [call EXCEPT !.fails = @ + 1, !.ret = "raise", !.rc = rc]
                   /\ AfterRaise(cmd, rc)
          ELSE /\ call' = [call EXCEPT !.fails = @ + 1, !.ret = "False", !.rc = rc]
               /\ AfterReturn(hist)
    /\ UNCHANGED <<envVars, mgrVars, operations, cntVars, cbVars, opIdx, keyIdx,
                   package_list, cmd, thrVars, sink>>

\* the loop condition is false on entry: the loop body never runs
LoopExit ==
    /\ pc = "call"
    /\ ~retry_allowed(attempts, num_retries)
    /\ call' = [call EXCEPT !.ret = IF module = "pacman" THEN "ok" ELSE "False"]
    /\ orphans' = Detached(orphans)
    /\ AfterReturn(hist)
    /\ UNCHANGED <<envVars, mgrVars, operations, cntVars, cbVars, opIdx, keyIdx,
                   package_list, cmd, lines, th, result_container, sink>>

\* ------------------------------------------------------- paru with a timeout
\* result_container = {"exc": None}; th.start(): the attempt runs on a thread of
\* its own.  target_call finds result_container through the enclosing scope, so
\* from here on every thread of this run_paru call writes to the new container.
StartThread ==
    /\ pc = "call"
    /\ retry_allowed(attempts, num_retries)
    /\ module = "paru" /\ paru_timeout > 0
    /\ attempts' = attempts + 1
    /\ cmd' = command
    /\ call' = [call EXCEPT !.inv = @ + 1]
    /\ lines' = 0
    /\ result_container' = NoExc
    /\ th' = "running"
    /\ pc' = "join"
    /\ UNCHANGED <<envVars, mgrVars, operations, cntVars, cbVars, posVars, who,
                   last_exc, orphans, result, sink, hist>>

\* the thread of the attempt delivers one output line to self.line_cb
ThreadLine ==
    /\ th = "running"
    /\ who = "core"
    /\ lines < MaxLines
    /\ lines' = lines + 1
    /\ \E kind \in LineKinds : LineCb(kind)
    /\ UNCHANGED <<envVars, mgrVars, operations, cntVars, posVars, pc, who, attempts,
                   last_exc, cmd, thrVars, result, call, hist>>

\* the command of the attempt ends while the control thread waits in th.join
ThreadFinish ==
    /\ th = "running"
    /\ \E ok \in BOOLEAN, rc \in ExitCodes :
          IF ok THEN th' = "ok" /\ result_container' = result_container
                ELSE th' = "exc" /\ result_container' = CalledProcessError(rc)
    /\ UNCHANGED <<envVars, mgrVars, operations, cntVars, cbVars, posVars, pc, who,
                   attempts, last_exc, cmd, lines, orphans, result, sink, call, hist>>

\* th.join returns with the thread finished: result_container decides
JoinReturn ==
    /\ pc = "join"
    /\ th \in {"ok", "exc"}
    /\ th' = "none"
    /\ lines' = 0
    /\ LET h == hist
       IN  IF result_container = NoExc
              THEN /\ call' = [call EXCEPT !.ret = "True"]
                   /\ orphans' = Detached(orphans)
                   /\ result_container' = NoExc
                   /\ AfterReturn(h)
           ELSE IF retry_allowed(attempts, num_retries)
              THEN /\ call' = [call EXCEPT !.fails = @ + 1]
                   /\ last_exc' = result_container
                   /\ orphans' = orphans
                   /\ pc' = "call"
                   /\ hist' = h
                   /\ UNCHANGED <<pkgIdx, result, who, attempts, result_container>>
           ELSE /\ call' = [call EXCEPT !.fails = @ + 1, !.ret = "False",
                                        !.rc = result_container.rc]
                /\ orphans' = Detached(orphans)
                /\ result_container' = NoExc
                /\ AfterReturn(h)
    /\ UNCHANGED <<envVars, mgrVars, operations, cntVars, cbVars, opIdx, keyIdx,
                   package_list, cmd, sink>>

\* (mutant) the timed-out attempt is left behind without a pkill
on_timeout_no_kill(c) ==
    [c EXCEPT !.fails = @ + 1, !.timeouts = @ + 1, !.rc = timeout_exc.rc]

\* run_paru, if th.is_alive(): what the environment sees of a timed-out
\* attempt, the pkill included
on_timeout(c) ==
    [c EXCEPT !.fails = @ + 1, !.timeouts = @ + 1, !.kills = @ + 1,
              !.rc = timeout_exc.rc]

\* th.join returns on the timeout with the thread alive: pkill is run, its
\* outcome ignored, the thread is left behind and the attempt counts as failed
JoinTimeout ==
    /\ pc = "join"
    /\ th = "running"
    /\ th' = "none"
    /\ lines' = 0
    /\ cmd' = Cmd("pkill", <<>>)
    /\ LET o == [orphans EXCEPT !.cur = @ + 1]
           c == on_timeout(call)
       IN  IF retry_allowed(attempts, num_retries)
              THEN /\ call' = c
                   /\ last_exc' = timeout_exc
                   /\ orphans' = o
                   /\ pc' = "call"
                   /\ UNCHANGED <<pkgIdx, result, hist, who, attempts, result_container>>
              ELSE /\ call' = [c EXCEPT !.ret = "False"]
                   /\ orphans' = Detached(o)
                   /\ result_container' = NoExc
                   /\ AfterReturn(hist)
    /\ UNCHANGED <<envVars, mgrVars, operations, cntVars, cbVars, opIdx, keyIdx,
                   package_list, sink>>

\* a detached thread still delivers an output line to self.line_cb
OrphanLine ==
    /\ (orphans.cur > 0 /\ who = "core") \/ orphans.old
    /\ \E kind \in LineKinds : LineCb(kind)
    /\ UNCHANGED <<envVars, mgrVars, operations, cntVars, posVars, pc, who, attempts,
                   last_exc, cmd, lines, thrVars, result, call, hist>>

\* the command of a detached thread of the retry loop in progress fails at last:
\* except Exception as e: result_container["exc"] = e
OrphanRaise ==
    /\ orphans.cur > 0
    /\ orphans' = [orphans EXCEPT !.cur = @ - 1]
    /\ \E rc \in ExitCodes : result_container' = CalledProcessError(rc)
    /\ UNCHANGED <<envVars, mgrVars, operations, cntVars, cbVars, posVars, pc, who,
                   attempts, last_exc, cmd, lines, th, result, sink, call, hist>>

\* run_operations: the key is done; after the last key the entry is done, and
\* after the last entry run() pushes 1.0 and returns None
EndKey ==
    /\ pc = "end_key"
    /\ call' = NoCall
    /\ LET done == completed_packages + key_progress(package_list)
           lastKey == keyIdx = Len(CurEntry)
           lastOp == opIdx = Len(operations)
           s1 == push_progress(sink, done, total_packages)
           s2 == IF lastKey THEN push_progress(s1, done, total_packages) ELSE s1
           s3 == IF lastKey /\ lastOp THEN terminal_push(s2) ELSE s2
       IN  /\ completed_packages' = done
           /\ group_packages' = IF lastKey THEN 0 ELSE group_packages
           /\ mode_packages' = IF lastKey THEN "None" ELSE mode_packages
           /\ sink' = s3
           /\ IF ~lastKey
                 THEN pc' = "begin_key" /\ keyIdx' = keyIdx + 1 /\ opIdx' = opIdx
                      /\ result' = result
              ELSE IF ~lastOp
                 THEN pc' = "begin_key" /\ keyIdx' = 1 /\ opIdx' = opIdx + 1
                      /\ result' = result
              ELSE pc' = "done" /\ result' = Success /\ UNCHANGED <<opIdx, keyIdx>>
    /\ UNCHANGED <<envVars, mgrVars, operations, total_packages, cbVars, pkgIdx,
                   package_list, who, attempts, last_exc, cmd, lines, thrVars, hist>>

\* the steps of the control thread
ControlStep ==
    \/ Start
    \/ UpdateDb
    \/ UpdateSystem
    \/ Load
    \/ Select
    \/ Index
    \/ BeginKey
    \/ PreScript
    \/ PostScript
    \/ CoreBegin
    \/ Invoke
    \/ Finish
    \/ LoopExit
    \/ StartThread
    \/ JoinReturn
    \/ JoinTimeout
    \/ EndKey

Next ==
    \/ Start
    \/ UpdateDb
    \/ UpdateSystem
    \/ Load
    \/ Select
    \/ Index
    \/ BeginKey
    \/ PreScript
    \/ PostScript
    \/ CoreBegin
    \/ Invoke
    \/ Line
    \/ Finish
    \/ LoopExit
    \/ StartThread
    \/ ThreadLine
    \/ ThreadFinish
    \/ JoinReturn
    \/ JoinTimeout
    \/ OrphanLine
    \/ OrphanRaise
    \/ EndKey

Spec == Init /\ [][Next]_vars


\* a step of the control thread is possible until run() has returned
ControlEnabled == pc # "done"

\* ------------------------------------------- the resolver and filter alone
\* names as a configuration may spell them
NameDollar == <<"l", "-", "$", "LOCALE">>
NameTwice == <<"$", "{", "LOCALE", "}", "-", "$", "LOCALE">>
NameBare == <<"LOCALE", "-", "a">>
NameEscaped == <<"l", "-", "$", "$", "{", "LOCALE", "}">>
NameOpen == <<"l", "-", "$", "{", "LOCALE">>
NameEmpty == <<>>

ResolveEntries ==
    { Str(n) : n \in {NameA, NameL, NameDollar, NameTwice, NameBare, NameEscaped,
                       NameOpen, NameEmpty} }
    \cup { Rec(n, "", "") : n \in {NameA, NameL, NameEmpty, NoName} }

\* one package list under one key, before subst_locale or
\* preprocess_operations is applied to it
ResolveInit ==
    /\ module = "pacman"
    /\ locale \in {"", "en", "fr"}
    /\ hasInternet = TRUE
    /\ online = FALSE
    /\ \E key \in {"install", "localInstall"}, plist \in SeqsUpTo(ResolveEntries, MaxLen) :
          operations = << << KV(key, plist) >> >>
    /\ pc = "input"
    /\ num_retries = 0
    /\ paru_timeout = 0
    /\ total_packages = 0
    /\ completed_packages = 0
    /\ group_packages = 0
    /\ mode_packages = "None"
    /\ custom_status_message = "None"
    /\ in_package_changes = FALSE
    /\ progress_fraction = Fraction(0, 1)
    /\ who = ""
    /\ opIdx = 1
    /\ keyIdx = 1
    /\ pkgIdx = 0
    /\ package_list = <<>>
    /\ attempts = 0
    /\ last_exc = NoExc
    /\ cmd = NoCmd
    /\ lines = 0
    /\ th = "none"
    /\ result_container = NoExc
    /\ orphans = [cur |-> 0, old |-> FALSE]
    /\ result = Running
    /\ sink = [last |-> Fraction(0, 0), ones |-> 0, bad |-> FALSE, terminal |-> 0]
    /\ call = NoCall
    /\ hist = [strictFail |-> FALSE, failCmd |-> NoCmd, failRc |-> 0,
               completedAtFail |-> 0, tryFail |-> FALSE, handled |-> 0,
               cfg |-> {}]

\* package_list = subst_locale(entry[key]): the list returned, and the list
\* passed in as the call leaves it
Resolve ==
    /\ pc = "input"
    /\ pc' = "resolved"
    /\ package_list' = subst_locale(CurEntry[keyIdx].val, locale)
    /\ operations' = [operations EXCEPT ![opIdx][keyIdx].val = subst_locale_arg(@, locale)]
    /\ UNCHANGED <<envVars, mgrVars, cntVars, cbVars, opIdx, keyIdx, pkgIdx, who,
                   attempts, last_exc, cmd, lines, thrVars, result, sink, call, hist>>

\* operations, filtered_total = pkgcheck.preprocess_operations(...)
Preprocess ==
    /\ pc = "input"
    /\ pc' = "preprocessed"
    /\ operations' = preprocess_operations(operations, locale, RepoPkgs, RepoGroups)
    /\ total_packages' = preprocess_total(operations, locale, RepoPkgs, RepoGroups)
    /\ UNCHANGED <<envVars, mgrVars, completed_packages, group_packages, mode_packages,
                   cbVars, posVars, who, attempts, last_exc, cmd, lines, thrVars,
                   result, sink, call, hist>>

ResolveNext ==
    \/ Resolve
    \/ Preprocess

ResolveSpec == ResolveInit /\ [][ResolveNext]_vars

\* the run under the scheduling the code has.  Every backend call returns or
\* times out: a synchronous command ends, th.join returns at the latest on
\* its timeout.  The control thread itself is never held up for good, which
\* is weak fairness of ControlStep with ENABLED <<ControlStep>>_vars written
\* out as ControlEnabled.
FairSpec ==
    /\ Spec
    /\ WF_vars(Finish \/ JoinReturn \/ JoinTimeout)
    /\ ([]<>(~ControlEnabled) \/ []<><<ControlStep>>_vars)

\* ------------------------------------------------- the base system (pacstrap)
\* the answers of  pacman -Slq  and  pacman -Sgq  on the host
HostPkgs == RepoPkgs \cup { <<"linux">>, <<"limine">>, <<"snapper">> }
HostGroups == RepoGroups

\* globalstorage "packagechooser_bootloader" and the FSTYPE findmnt reports
Bootloaders == {"", "grub", "limine", "refind", "systemd-boot", "other"}
Filesystems == {"", "zfs", "btrfs", "ext4"}

Names(ns) == [i \in 1..Len(ns) |-> Str(<<ns[i]>>)]

\* run(): what is appended to base_packages for the bootloader and the root
\* file system
bootloader_packages(bootloader, fs) ==
    IF bootloader = "" THEN <<>>
    ELSE (IF bootloader = "grub"
             THEN Names(<<"grub", "catos-grub-theme-dark", "os-prober">>)
          ELSE IF bootloader = "limine" THEN Names(<<"limine">>)
          ELSE IF bootloader = "refind" THEN Names(<<"refind">>)
          ELSE IF bootloader = "systemd-boot" THEN Names(<<"catos-systemd-boot-config">>)
          ELSE <<>>)
         \o
         (IF fs = "zfs"
             THEN Names(<<"zfs-utils", "zfs-dkms", "libunwind", "linux-lts",
                          "linux-lts-headers">>)
          ELSE IF fs = "btrfs" /\ bootloader \in {"limine", "refind"}
             THEN Names(<<"snapper", "btrfs-assistant">>)
          ELSE IF fs = "btrfs" /\ bootloader = "grub"
             THEN Names(<<"snapper", "btrfs-assistant", "grub-btrfs">>)
          ELSE <<>>)
         \o
         (IF fs # "zfs" THEN Names(<<"linux", "linux-headers">>) ELSE <<>>)

\* the entries basePackages may hold
BaseEntries == { Str(n) : n \in {NameA, NameM, NameG, NameEmpty} }

\* _has_internet()
has_internet == hasInternet \/ online

\* _maybe_sync_db_host: pacman -Sy is run when sync_db is set and there is
\* connectivity
syncs(sync, internet) == sync /\ internet

\* (mutant) pacstrap is run on an empty list too
nothing_left_never(base) == FALSE

\* run(): if not base_packages
nothing_left(base) == base = <<>>

\* the module as it is loaded, before run()
PacstrapInit ==
    /\ module = "pacstrap"
    /\ locale = ""
    /\ hasInternet \in BOOLEAN
    /\ online \in BOOLEAN
    /\ num_retries = 0
    /\ paru_timeout = 0
    /\ operations = <<>>
    /\ total_packages = 0
    /\ completed_packages = 0
    /\ group_packages = 0
    /\ mode_packages = "None"
    /\ custom_status_message = "None"
    /\ in_package_changes = FALSE
    /\ progress_fraction = Fraction(0, 1)
    /\ pc = "start"
    /\ who = ""
    /\ opIdx = 0
    /\ keyIdx = 0
    /\ pkgIdx = 0
    /\ package_list = <<>>
    /\ attempts = 0
    /\ last_exc = NoExc
    /\ cmd = NoCmd
    /\ lines = 0
    /\ th = "none"
    /\ result_container = NoExc
    /\ orphans = [cur |-> 0, old |-> FALSE]
    /\ result = Running
    /\ sink = [last |-> Fraction(0, 0), ones |-> 0, bad |-> FALSE, terminal |-> 0]
    /\ call = NoCall
    /\ hist = [strictFail |-> FALSE, failCmd |-> NoCmd, failRc |-> 0,
               completedAtFail |-> 0, tryFail |-> FALSE, handled |-> 0,
               cfg |-> {}]

\* what no step of the pacstrap module touches
pacstrapFrame ==
    <<module, locale, hasInternet, mgrVars, operations, cntVars, in_package_changes,
      progress_fraction, opIdx, keyIdx, pkgIdx, who, attempts, last_exc, thrVars>>

\* run(): the checks of the mount point and of the configuration, then
\* base_packages = configuration["basePackages"]
PacstrapStart ==
    /\ pc = "start"
    /\ \E mount \in {"ok", "unset", "missing"},
          conf \in {"ok", "none", "no_list", "bad_list"} :
          IF mount = "unset"
              THEN /\ result' = Failure("No mount point for root partition in globalstorage",
                                        NoCmd, 0)
                   /\ pc' = "done" /\ package_list' = package_list
          ELSE IF mount = "missing"
              THEN /\ result' = Failure("Bad mount point for root partition in globalstorage",
                                        NoCmd, 0)
                   /\ pc' = "done" /\ package_list' = package_list
          ELSE IF conf = "none"
              THEN /\ result' = Failure("No configuration found", NoCmd, 0)
                   /\ pc' = "done" /\ package_list' = package_list
          ELSE IF conf = "no_list"
              THEN /\ result' = Failure("Package List Missing", NoCmd, 0)
                   /\ pc' = "done" /\ package_list' = package_list
          ELSE IF conf = "bad_list"
              THEN /\ result' = Failure("Bad configuration", NoCmd, 0)
                   /\ pc' = "done" /\ package_list' = package_list
          ELSE /\ result' = result
               /\ pc' = "bootloader"
               /\ package_list' \in SeqsUpTo(BaseEntries, MaxLen)
    /\ UNCHANGED <<pacstrapFrame, online, custom_status_message, cmd, lines, sink,
                   call, hist>>

\* run(): the packages of the bootloader and of the root file system are
\* appended
Bootloader ==
    /\ pc = "bootloader"
    /\ \E bootloader \in Bootloaders, fs \in Filesystems :
          package_list' = package_list \o bootloader_packages(bootloader, fs)
    /\ pc' = "sync"
    /\ UNCHANGED <<pacstrapFrame, online, custom_status_message, cmd, lines, sink,
                   call, hist, result>>

\* _maybe_sync_db_host: pacman -Sy is started, or skipped
SyncDb ==
    /\ pc = "sync"
    /\ \E sync \in BOOLEAN :
          /\ hist' = ReadFlag(hist, "sync_db", sync)
          /\ IF syncs(sync, has_internet)
                THEN /\ pc' = "syncing"
                     /\ cmd' = Cmd("-Sy", <<>>)
                     /\ call' = [NewCall("sync") EXCEPT !.inv = 1]
                ELSE /\ pc' = "index"
                     /\ UNCHANGED <<cmd, call>>
    /\ lines' = 0
    /\ UNCHANGED <<pacstrapFrame, online, custom_status_message, package_list, sink,
                   result>>

\* line_cb(line): the line becomes the status; setprogress(0) at most every
\* half second
HostLine ==
    /\ pc \in {"syncing", "running"}
    /\ lines < MaxLines
    /\ lines' = lines + 1
    /\ custom_status_message' = "status"
    /\ \E throttled \in BOOLEAN :
          sink' = IF throttled THEN sink ELSE setprogress(sink, Fraction(0, 1))
    /\ UNCHANGED <<pacstrapFrame, online, package_list, pc, cmd, call, hist, result>>

\* pacman -Sy ends; a PacmanError is logged, which hist keeps as a failure
\* that was absorbed, and the run goes on
SyncFinish ==
    /\ pc = "syncing"
    /\ lines' = 0
    /\ \E ok \in BOOLEAN, rc \in ExitCodes :
          IF ok
              THEN /\ call' = [call EXCEPT !.ret = "ok"]
                   /\ pc' = "index" /\ result' = result /\ hist' = hist
          ELSE /\ call' = [call EXCEPT !.fails = 1, !.ret = "raise", !.rc = rc]
               /\ hist' = [hist EXCEPT !.tryFail = TRUE]
               /\ pc' = "index" /\ result' = result
    /\ UNCHANGED <<pacstrapFrame, online, custom_status_message, package_list, cmd,
                   sink>>

\* _build_repo_index_host and pkgcheck.filter_operation_list; with nothing
\* left the run is over: online is set, 1.0 is pushed, None is returned
HostIndex ==
    /\ pc = "index"
    /\ \E outcome \in {"ok", "-Slq", "-Sgq"}, rc \in ExitCodes :
          /\ cmd' = Cmd(IF outcome = "ok" THEN "-Sgq" ELSE outcome, <<>>)
          /\ IF outcome = "ok"
                THEN LET base == filter_operation_list(package_list, HostPkgs, HostGroups)
                     IN  /\ call' = [NoCall EXCEPT !.who = "index",
                                                   !.inv = index_queries(outcome),
                                                   !.ret = "ok"]
                         /\ package_list' = base
                         /\ IF nothing_left(base)
                               THEN /\ online' = TRUE
                                    /\ sink' = terminal_push(sink)
                                    /\ result' = Success
                                    /\ pc' = "done"
                               ELSE /\ pc' = "pacstrap"
                                    /\ UNCHANGED <<online, sink, result>>
                ELSE /\ call' = [NoCall EXCEPT !.who = "index",
                                              !.inv = index_queries(outcome),
                                              !.fails = 1, !.ret = "raise", !.rc = rc]
                     /\ result' = Failure("Package Manager error", cmd', rc)
                     /\ pc' = "done"
                     /\ UNCHANGED <<online, sink, package_list>>
    /\ UNCHANGED <<pacstrapFrame, custom_status_message, lines, hist>>

\* run_in_host(["pacstrap", root_mount_point] + base_packages, line_cb)
Pacstrap ==
    /\ pc = "pacstrap"
    /\ cmd' = Cmd("pacstrap", [i \in 1..Len(package_list) |-> package_list[i].package])
    /\ call' = [NewCall("pacstrap") EXCEPT !.inv = 1]
    /\ lines' = 0
    /\ pc' = "running"
    /\ UNCHANGED <<pacstrapFrame, online, custom_status_message, package_list, sink,
                   hist, result>>

\* pacstrap ends: on an error the run fails, else the files are copied next
PacstrapFinish ==
    /\ pc = "running"
    /\ lines' = 0
    /\ \E ok \in BOOLEAN, rc \in ExitCodes :
          IF ok
              THEN /\ call' = [call EXCEPT !.ret = "ok"]
                   /\ pc' = "copy" /\ result' = result
          ELSE /\ call' = [call EXCEPT !.fails = 1, !.ret = "raise", !.rc = rc]
               /\ pc' = "done" /\ result' = Failure("Failed to run pacstrap", cmd, rc)
    /\ UNCHANGED <<pacstrapFrame, online, custom_status_message, package_list, cmd,
                   sink, hist>>

\* run(): postInstallFiles are copied, a failed copy is logged; online is
\* set, 1.0 is pushed, None is returned
PostInstall ==
    /\ pc = "copy"
    /\ online' = TRUE
    /\ sink' = terminal_push(sink)
    /\ result' = Success
    /\ pc' = "done"
    /\ UNCHANGED <<pacstrapFrame, custom_status_message, package_list, cmd, lines,
                   call, hist>>

PacstrapNext ==
    \/ PacstrapStart
    \/ Bootloader
    \/ SyncDb
    \/ HostLine
    \/ SyncFinish
    \/ HostIndex
    \/ Pacstrap
    \/ PacstrapFinish
    \/ PostInstall

PacstrapSpec == PacstrapInit /\ [][PacstrapNext]_vars

\* ============================================================== properties
\* entries the executor has to be handed: the executable lists of the
\* operations as run_operations resolves them
ExecCount ==
    SumSeq([i \in 1..Len(operations) |->
        SumSeq([j \in 1..Len(operations[i]) |->
            IF operations[i][j].key \in ExecKeys
                THEN Len(subst_locale(operations[i][j].val, locale)) ELSE 0])])

Returned == call.ret \in {"ok", "raise", "True", "False"}

\* C1: at every point of a run of either dispatcher 0 <= completed <= total,
\* and every fraction pushed to the progress sink lies in [0,1].
C1_CountersInRange ==
    /\ 0 <= completed_packages
    /\ completed_packages <= total_packages
    /\ ~sink.bad

\* C2: run_pacman with retry count r >= 0, on a command that fails k times and
\* then succeeds: for r >= k it returns after exactly k+1 invocations, for
\* r < k it raises after exactly r+1 invocations (all of them failed).
C2_StrictRetry ==
    (module = "pacman" /\ num_retries >= 0 /\ Returned) =>
        /\ call.ret \in {"ok", "raise"}
        /\ call.ret = "ok" =>
              call.fails <= num_retries /\ call.inv = call.fails + 1
        /\ call.ret = "raise" =>
              call.fails = num_retries + 1 /\ call.inv = num_retries + 1

C2_Witness ==
    /\ module = "pacman" /\ num_retries = 1
    /\ call.ret = "ok" /\ call.fails = 1 /\ call.inv = 2

\* C3: run_paru without a timeout never raises: when every invocation fails it
\* makes exactly r+1 invocations and returns False; the first success returns
\* True and nothing is invoked after it.
C3_BestEffortRetry ==
    (module = "paru" /\ paru_timeout = 0 /\ num_retries >= 0 /\ Returned) =>
        /\ call.ret \in {"True", "False"}
        /\ call.ret = "False" =>
              call.fails = num_retries + 1 /\ call.inv = num_retries + 1
        /\ call.ret = "True" =>
              call.fails <= num_retries /\ call.inv = call.fails + 1

C3_Witness ==
    /\ module = "paru" /\ paru_timeout = 0 /\ num_retries = 1
    /\ call.ret = "False" /\ call.inv = 2

\* C4 as stated: every paru run that passed the backend guard ends in Done with
\* no error and with progress 1.0.
C4_Original ==
    (module = "paru" /\ pc = "done" /\ result.title # "Bad backend") =>
        result.status = "ok" /\ IsOne(sink.last)

\* C4: under paru no outcome of a backend command or script moves the run to
\* Failed: the run always reaches Done, the only error it can return is the
\* backend guard's, and when operations were counted (total > 0) it returns
\* right after pushing 1.0; a run that is skipped or counts nothing returns
\* without a push.
C4_BestEffortCompletes ==
    /\ [](module = "paru" /\ pc = "done" =>
             result.status = "ok" \/ result.title = "Bad backend")
    /\ [][(module = "paru" /\ pc # "done" /\ pc' = "done") =>
             /\ result'.status = "ok" \/ result'.title = "Bad backend"
             /\ result'.status = "ok" =>
                   IF total_packages' > 0
                      THEN sink'.last = One
                      ELSE sink' = sink /\ sink.last = Fraction(0, 0)]_vars
    /\ (module = "paru" ~> pc = "done")

\* a paru run whose last command was the kill after a timeout ended in Done
C4_Witness ==
    /\ module = "paru" /\ pc = "done" /\ result.status = "ok"
    /\ total_packages > 0 /\ cmd.verb = "pkill" /\ sink.last = One

\* C5: under pacman the first command or script of a strict key (install,
\* remove, localInstall) that fails for good ends the run in Failed: the error
\* returned carries that command and its exit code, no command is run after
\* it, and completed keeps the value it had.
C5_StrictFailure ==
    hist.strictFail =>
        /\ pc = "done"
        /\ result.status = "error"
        /\ result.cmd = hist.failCmd /\ result.rc = hist.failRc
        /\ cmd = hist.failCmd
        /\ completed_packages = hist.completedAtFail

\* a strict command failed after an earlier key had been completed
C5_Witness ==
    /\ hist.strictFail /\ completed_packages > 0
    /\ hist.failCmd.verb \in {"-S", "-U", "-Rs"}

\* C6: under pacman a failure under try_install / try_remove is absorbed: it
\* never makes the run return an error, and a run that saw such a failure and
\* no strict one ends in Done with every entry handed to the executor and
\* with progress 1.0.
C6_TryAbsorbed ==
    (module = "pacman" /\ hist.tryFail /\ ~hist.strictFail) =>
        /\ result.status # "error"
        /\ pc = "done" =>
              /\ result.status = "ok"
              /\ sink.last = One
              /\ hist.handled = ExecCount

C6_Witness ==
    /\ module = "pacman" /\ hist.tryFail /\ pc = "done" /\ result.status = "ok"
    /\ Len(operations) = 2

\* C7: with a positive timeout and r >= 0, when no attempt returns within the
\* timeout run_paru makes exactly r+1 attempts, each counted as a failure with
\* exit code 124 and followed by the kill command, and then returns False; the
\* control thread waiting in th.join can always go on.
C7_Timeout ==
    /\ (module = "paru" /\ paru_timeout > 0 /\ num_retries >= 0
          /\ call.inv > 0 /\ call.timeouts = call.inv /\ pc # "join") =>
          /\ call.kills = call.inv
          /\ call.fails = call.inv
          /\ call.rc = TimeoutExitCode
          /\ Returned => call.ret = "False" /\ call.inv = num_retries + 1
          /\ ~Returned => call.inv <= num_retries
    /\ (pc = "join" /\ th = "running") => ENABLED JoinTimeout

C7_Witness ==
    /\ module = "paru" /\ num_retries = 1
    /\ call.ret = "False" /\ call.timeouts = 2 /\ call.kills = 2

\* C8: the late result of a detached attempt is a no-op: when the thread of
\* the attempt in hand has ended without an exception, the result slot the
\* control thread reads holds none.
C8_LateResultNoOp ==
    (pc = "join" /\ th = "ok") => result_container = NoExc

\* C9: the counters and the custom status message are written by the control
\* thread only; a thread spawned for the timeout writes its own result slot
\* and nothing else, also once it is detached.
C9_SingleWriter ==
    [][(ThreadLine \/ ThreadFinish \/ OrphanLine \/ OrphanRaise) =>
          /\ UNCHANGED <<total_packages, completed_packages, group_packages,
                         custom_status_message>>
          /\ (OrphanRaise /\ pc = "join") => UNCHANGED result_container]_vars

\* C10 as stated: a run that reaches Done has pushed 1.0 exactly once.
C10_Original ==
    (pc = "done" /\ result.status = "ok") => sink.ones = 1

\* C10: the final push of 1.0 is made exactly once, as the last push before
\* run() returns, in every run that reaches Done with total > 0; a run that
\* is skipped or counts nothing returns without any push.
C10_TerminalPush ==
    /\ [](sink.terminal <= 1 /\ (sink.terminal = 1 => pc = "done" /\ result.status = "ok"))
    /\ [][(pc # "done" /\ pc' = "done" /\ result'.status = "ok") =>
             IF total_packages' > 0
                THEN sink'.terminal = 1 /\ sink'.last = One
                ELSE sink'.terminal = 0 /\ sink' = sink /\ sink.last = Fraction(0, 0)]_vars

\* a run reached Done having pushed 1.0 more than once
C10_Witness ==
    /\ pc = "done" /\ result.status = "ok" /\ total_packages > 0
    /\ sink.terminal = 1 /\ sink.ones >= 2


\* the positions of run() inside the loop over the operations
Executing ==
    \/ pc \in {"begin_key", "pre", "core", "post", "end_key"}
    \/ pc \in {"call", "running", "join"} /\ who = "core"

\* C11: when the total is 0 once the operations are counted, run() returns
\* success at once: the loop over the operations is never entered, no install
\* or remove command or script is run, nothing is pushed, and no fraction with
\* denominator 0 is ever formed.
C11_ZeroTotal ==
    /\ Executing => total_packages > 0
    /\ (pc = "done" /\ result.status = "ok" /\ total_packages = 0) =>
          /\ hist.handled = 0
          /\ completed_packages = 0
          /\ cmd.verb \notin {"-S", "-U", "-Rs", "script"}
          /\ sink.last = Fraction(0, 0)
    /\ progress_fraction[2] > 0
    /\ sink.last = Fraction(0, 0) \/ sink.last[2] > 0

\* the index was built, operations survived preprocessing, yet nothing counts
C11_Witness ==
    /\ module = "pacman" /\ pc = "done" /\ result.status = "ok"
    /\ cmd.verb = "-Sgq" /\ total_packages = 0 /\ Len(operations) > 0

QueryFailed == result.title = "Repository metadata query failed"

\* C12: when one of the two index queries exits non-zero, the query is not
\* repeated (and the group query is not started after a failed package
\* query), the run goes from preprocessing straight to Failed with no
\* operation executed, and the error names the failing query and its exit code.
C12_IndexFailure ==
    /\ [](QueryFailed =>
             /\ pc = "done" /\ result.status = "error"
             /\ result.cmd = cmd /\ cmd.verb \in {"-Slq", "-Sgq"}
             /\ result.rc \in ExitCodes
             /\ call.who = "index"
             /\ call.inv = (IF cmd.verb = "-Slq" THEN 1 ELSE 2)
             /\ hist.handled = 0 /\ completed_packages = 0
             /\ sink.last = Fraction(0, 0))
    /\ [][(~QueryFailed /\ QueryFailed') => pc = "index" /\ pc' = "done"]_vars

C12_Witness ==
    /\ QueryFailed /\ cmd.verb = "-Slq" /\ Len(operations) > 0


\* the step in which build_repo_index and preprocess_operations succeed, and
\* the state right after it
IndexOk == pc = "index" /\ pc' # "index" /\ ~QueryFailed'
AfterIndex == call.who = "index" /\ ~QueryFailed /\ pc \in {"begin_key", "done"}

InIndex(name) == name \in RepoPkgs \/ name \in RepoGroups

\* the entries under the executable keys of an operation list
ExecSum(ops) ==
    SumSeq([i \in 1..Len(ops) |->
        SumSeq([j \in 1..Len(ops[i]) |->
            IF ops[i][j].key \in ExecKeys THEN Len(ops[i][j].val) ELSE 0])])

HasKey(op, key) == \E j \in 1..Len(op) : op[j].key = key

\* C13: the total preprocess returns is the sum of the lengths of the
\* install, try_install, remove, try_remove and localInstall lists of the
\* operations it returns; a list under any other key adds nothing.
C13_TotalIsExecSum ==
    [][IndexOk => total_packages' = ExecSum(operations')]_vars

\* an operation with a source tag was counted without its tag
C13_Witness ==
    /\ AfterIndex /\ total_packages = 1 /\ Len(operations) = 1
    /\ HasKey(operations[1], "source")

\* C14: under install, try_install, remove and try_remove exactly the
\* resolved entries whose name is in the index (a package or a group) are in
\* the output; under localInstall every resolved entry is, checked or not.
C14_ExistenceFilter ==
    [][IndexOk =>
        /\ \A i \in 1..Len(operations') : \A j \in 1..Len(operations'[i]) :
              operations'[i][j].key \in filter_keys =>
                 \A k \in 1..Len(operations'[i][j].val) :
                    InIndex(operations'[i][j].val[k].package)
        /\ \A i \in 1..Len(operations) : \A j \in 1..Len(operations[i]) :
              LET key == operations[i][j].key
                  res == subst_locale(operations[i][j].val, locale)
              IN  \A k \in 1..Len(res) :
                     (key = "localInstall" \/ (key \in filter_keys /\ InIndex(res[k].package)))
                     => \E i2 \in 1..Len(operations') : \E j2 \in 1..Len(operations'[i2]) :
                           /\ operations'[i2][j2].key = key
                           /\ \E k2 \in 1..Len(operations'[i2][j2].val) :
                                 operations'[i2][j2].val[k2] = res[k]]_vars

\* [{install: [a, m]}] with a in the index and m not: total 1, only a is left;
\* [{localInstall: [m], ...}]: m is left
C14_Witness ==
    /\ AfterIndex /\ total_packages = 2 /\ Len(operations) = 2
    /\ operations[1] = << KV("install", <<Str(NameA)>>) >>
    /\ operations[2][1] = KV("localInstall", <<Str(NameM)>>)

RECURSIVE IsSubseq(_, _)
\* a is b with some elements left out
IsSubseq(a, b) ==
    IF a = <<>> THEN TRUE
    ELSE IF b = <<>> THEN FALSE
    ELSE IF Head(a) = Head(b) THEN IsSubseq(Tail(a), Tail(b))
    ELSE IsSubseq(a, Tail(b))

\* operation out is operation in with entries left out of its lists
OpFrom(out, in, loc) ==
    /\ Len(out) = Len(in)
    /\ \A j \in 1..Len(out) :
          /\ out[j].key = in[j].key
          /\ IsSubseq(out[j].val, subst_locale(in[j].val, loc))

\* C15: preprocess never reorders: the operations it returns are operations
\* of the input in their input order, with their keys in the same order, and
\* each list holds resolved entries of the input list in their input order.
C15_OrderKept ==
    [][IndexOk =>
        \E f \in [1..Len(operations') -> 1..Len(operations)] :
           /\ \A a, b \in 1..Len(operations') : a < b => f[a] < f[b]
           /\ \A a \in 1..Len(operations') :
                 OpFrom(operations'[a], operations[f[a]], locale)]_vars

\* two operations survive, the first with two entries in one list
C15_Witness ==
    /\ AfterIndex /\ Len(operations) = 2
    /\ Len(operations[1][1].val) = 2
    /\ operations[1] # operations[2]

\* C16: every operation preprocess returns still carries at least one entry
\* under install, try_install, remove, try_remove or localInstall.
C16_NoEmptyOperation ==
    [][IndexOk =>
        \A i \in 1..Len(operations') :
           \E j \in 1..Len(operations'[i]) :
              operations'[i][j].key \in ExecKeys /\ operations'[i][j].val # <<>>]_vars


\* the entries of a list that have a package name at all
Named(plist) == SelectSeq(plist, LAMBDA e : e.package # NoName)

CountAtom(name, a) == Cardinality({i \in 1..Len(name) : name[i] = a})

\* the word LOCALE at place i of name is the placeholder $LOCALE or ${LOCALE}
PlaceholderAt(name, i) ==
    \/ /\ i > 1 /\ name[i - 1] = "$"
       /\ i = Len(name) \/ ~IsIdent(name[i + 1])
    \/ /\ i > 2 /\ name[i - 1] = "{" /\ name[i - 2] = "$"
       /\ i < Len(name) /\ name[i + 1] = "}"

\* every LOCALE in name is a placeholder and no dollar is escaped
WellFormed(name) ==
    /\ \A i \in 1..Len(name) : name[i] = "LOCALE" => PlaceholderAt(name, i)
    /\ \A i \in 1..(Len(name) - 1) : ~(name[i] = "$" /\ name[i + 1] = "$")

\* C17 as stated: for a locale other than "en" no name in the output of
\* resolve contains the LOCALE token any more.
C17_Original ==
    [][(Resolve /\ EffectiveLocale(locale) # "en") =>
          \A k \in 1..Len(package_list') : ~ContainsLOCALE(package_list'[k].package)]_vars

\* C17: for a locale L other than "en" resolve keeps every entry that has a
\* name, in order, and replaces every placeholder $LOCALE or ${LOCALE} by L:
\* a name in which every LOCALE is such a placeholder and no dollar is escaped
\* comes out without the token, with one L for each placeholder, and a name
\* without a dollar comes out unchanged.
C17_PlaceholdersReplaced ==
    [][(Resolve /\ EffectiveLocale(locale) # "en") =>
          LET in == Named(CurEntry[keyIdx].val)
              out == package_list'
          IN  /\ Len(out) = Len(in)
              /\ \A k \in 1..Len(in) :
                    /\ WellFormed(in[k].package) =>
                          /\ ~ContainsLOCALE(out[k].package)
                          /\ CountAtom(out[k].package, locale)
                                = CountAtom(in[k].package, "LOCALE")
                    /\ CountAtom(in[k].package, "$") = 0 =>
                          out[k].package = in[k].package]_vars

\* a name with two placeholders came out with both replaced
C17_Witness ==
    /\ pc = "resolved" /\ locale = "fr"
    /\ \E k \in 1..Len(package_list) : package_list[k].package = <<"fr", "-", "fr">>

\* C18: for locale "en", an unset or empty locale included, the output of
\* resolve is the input without the entries that have no name and without
\* those whose name contains LOCALE, each of the others unchanged and in order.
C18_EnglishDrops ==
    [][(Resolve /\ locale \in {"", "en"}) =>
          package_list' = SelectSeq(CurEntry[keyIdx].val,
                             LAMBDA e : e.package # NoName /\ ~ContainsLOCALE(e.package))]_vars

\* with the locale unset, of two entries the one with the placeholder is gone
C18_Witness ==
    /\ pc = "resolved" /\ locale = ""
    /\ Len(CurEntry[keyIdx].val) = 2
    /\ CurEntry[keyIdx].val[1] = Str(NameL)
    /\ package_list = <<Str(NameA)>>

\* C19: resolve leaves the list and every entry passed to it as they were.
C19_NoSideEffect ==
    [][Resolve => operations' = operations]_vars

\* C20: every entry resolve returns, and every entry preprocess returns under
\* any key, has a package name that is present and not the empty string.
C20_NamesNonEmpty ==
    [][/\ Resolve =>
             \A k \in 1..Len(package_list') : ~IsEmptyName(package_list'[k].package)
       /\ Preprocess =>
             \A i \in 1..Len(operations') : \A j \in 1..Len(operations'[i]) :
                \A k \in 1..Len(operations'[i][j].val) :
                   ~IsEmptyName(operations'[i][j].val[k].package)]_vars

\* a key outside the six recognized kinds
UnknownKey(key) == key \notin ExecKeys \cup {"source"}

\* C21: a key outside the six recognized kinds is skipped: handling it is not
\* fatal, hands no command to the backend, and changes neither total_packages
\* nor completed_packages.
C21_UnknownKeySkipped ==
    [][(pc \in {"begin_key", "end_key"} /\ UnknownKey(CurKey) /\ (BeginKey \/ EndKey)) =>
          /\ cmd' = cmd
          /\ result'.status # "error"
          /\ total_packages' = total_packages
          /\ completed_packages' = completed_packages]_vars

\* what the status callback returns in the state the run is in
status ==
    pretty_status_message(custom_status_message, group_packages, mode_packages,
                          completed_packages, total_packages)

NoSink == [last |-> Fraction(0, 0), ones |-> 0, bad |-> FALSE, terminal |-> 0]

\* C23: a run with skip_if_no_internet set and the connectivity flag false
\* returns success with no command handed to the backend at all; update_db and
\* update_system are invoked only when configured and with the connectivity
\* flag true.
C23_Connectivity ==
    /\ ("skip_if_no_internet" \in hist.cfg /\ ~hasInternet) =>
          /\ pc = "done" /\ result = Success
          /\ cmd = NoCmd /\ call = NoCall /\ sink = NoSink
    /\ who = "update_db" => ("update_db" \in hist.cfg /\ hasInternet)
    /\ who = "update_system" => ("update_system" \in hist.cfg /\ hasInternet)
    /\ cmd.verb \in {"-Sy", "-Su"} => hasInternet

\* the run was skipped for want of connectivity
C23_Witness ==
    /\ "skip_if_no_internet" \in hist.cfg /\ ~hasInternet
    /\ pc = "done" /\ result = Success /\ cmd = NoCmd

\* C24: the run is sequential.  A command of the backend runs only while the
\* control thread waits for it, so none is running when the next attempt,
\* script or operation starts, except an attempt detached by a timeout; that
\* happens under paru with a timeout only, and for every detached attempt of
\* the retry loop in progress a pkill was issued, in the step that detached it.
C24_Sequential ==
    /\ [](/\ th # "none" => pc = "join"
          /\ pc = "running" => th = "none"
          /\ (orphans.cur > 0 \/ orphans.old) => (module = "paru" /\ paru_timeout > 0)
          /\ orphans.cur <= call.kills)
    /\ [][/\ (Invoke \/ StartThread \/ PreScript \/ PostScript \/ BeginKey) =>
                (th = "none" /\ pc # "running")
          /\ (orphans'.cur > orphans.cur \/ (orphans'.old /\ ~orphans.old)) =>
                (\/ JoinTimeout /\ cmd' = Cmd("pkill", <<>>)
                                /\ call'.kills = call.kills + 1
                 \/ orphans.cur > 0 /\ orphans.cur <= call.kills)]_vars

\* a second attempt is started while the first, detached by the timeout and
\* sent a pkill, may still be running
C24_Witness ==
    /\ pc = "join" /\ th = "running" /\ who = "core"
    /\ orphans.cur = 1 /\ call.kills = 1 /\ call.inv = 2

\* the mode a key sets: Install for the install family, Remove for the remove
\* family, and for any other key the mode there was
ModeOf(key, mode) ==
    IF key \in InstallKeys THEN "INSTALL"
    ELSE IF key \in RemoveKeys THEN "REMOVE" ELSE mode

\* C25: operations are processed in list order and the keys of an operation
\* in declared order.  For each key the mode is set first, before any command
\* of the key; completed_packages is increased only at the end of the key,
\* when the executor call has returned, by the number of entries of the key's
\* resolved list; a progress push follows the increase.
C25_KeyOrder ==
    /\ [](Executing /\ pc # "begin_key" /\ CurKey \in ExecKeys =>
             mode_packages = ModeOf(CurKey, "None"))
    /\ [][/\ BeginKey =>
                /\ package_list' = subst_locale(CurEntry[keyIdx].val, locale)
                /\ mode_packages' = ModeOf(CurKey, mode_packages)
                /\ cmd' = cmd
                /\ UNCHANGED <<opIdx, keyIdx, completed_packages>>
          /\ (pc' = "begin_key" /\ pc \notin {"begin_key", "end_key"}) => (opIdx' = 1 /\ keyIdx' = 1)
          /\ (Executing /\ <<opIdx, keyIdx>> # <<opIdx', keyIdx'>>) =>
                /\ pc = "end_key"
                /\ IF keyIdx < Len(CurEntry)
                      THEN opIdx' = opIdx /\ keyIdx' = keyIdx + 1
                      ELSE opIdx' = opIdx + 1 /\ keyIdx' = 1
          /\ completed_packages' # completed_packages =>
                /\ pc = "end_key" /\ who = "" /\ th = "none"
                /\ completed_packages' = completed_packages + Len(package_list)
                /\ sink' # sink
                /\ \/ sink'.last = Fraction(completed_packages', total_packages)
                   \/ pc' = "done" /\ sink'.last = One]_vars

\* the second key of an operation is about to begin: the first one, a remove
\* key, has added its entry to completed_packages and the sum was pushed
C25_Witness ==
    /\ pc = "begin_key" /\ keyIdx = 2
    /\ CurEntry[1].key = "try_remove"
    /\ completed_packages = 1 /\ total_packages = 2
    /\ sink.last = Fraction(1, 2)

\* a step that hands one backend output line to line_cb
LineStep == Line \/ ThreadLine \/ OrphanLine

\* C26: a backend output line never changes total_packages, completed_packages
\* or group_packages.  It changes the status message or pushes progress only
\* while the section flag is set, which only a line sets and which every
\* install / remove call resets when it begins; what it pushes is the baseline
\* of the manager, which is completed / total as computed when the current
\* install / remove call began (0 when the total is 0).
C26_LineFrame ==
    /\ []((pc \in {"call", "running", "join"} /\ who = "core") =>
             progress_fraction = Fraction(completed_packages, total_packages))
    /\ [][/\ LineStep =>
                /\ UNCHANGED <<total_packages, completed_packages, group_packages,
                               progress_fraction>>
                /\ (custom_status_message' # custom_status_message \/ sink' # sink) =>
                      /\ in_package_changes /\ in_package_changes'
                      /\ custom_status_message' = "status"
                      /\ sink'.last = progress_fraction
          /\ CoreBegin =>
                /\ ~in_package_changes'
                /\ progress_fraction' = IF total_packages > 0
                                           THEN Fraction(completed_packages, total_packages)
                                           ELSE Fraction(0, 1)
          /\ (in_package_changes' /\ ~in_package_changes) =>
                (LineStep /\ sink' = sink
                          /\ custom_status_message' = custom_status_message)
          /\ progress_fraction' # progress_fraction => CoreBegin]_vars

\* a line of the second key's command was shown: the status is the line and
\* the fraction pushed is the baseline 1/2 of that call
C26_Witness ==
    /\ pc = "running" /\ who = "core" /\ lines = 2
    /\ in_package_changes /\ custom_status_message = "status"
    /\ completed_packages = 1 /\ total_packages = 2
    /\ sink.last = progress_fraction /\ progress_fraction = Fraction(1, 2)

\* C27: whenever a run returns success after executing its operations,
\* completed_packages equals total_packages.
C27_CompletedIsTotal ==
    (pc = "done" /\ result = Success /\ opIdx > 0) =>
        completed_packages = total_packages

\* C28: every call of the retry loop, whatever the retry count, has invoked
\* the command at least once when it ends; run_pacman returns normally, and
\* run_paru returns True, only if its last invocation succeeded.
C28_InvokedOnce ==
    Returned =>
        /\ call.inv >= 1
        /\ call.ret \in {"ok", "True"} => call.inv = call.fails + 1

\* C29: in a pacman run every name handed to the install or remove command
\* of the backend under install, try_install, remove or try_remove is a name
\* of the repository index, one that passed the existence filter: when
\* run_operations resolves the list of such a key once more, the list that
\* preprocess left comes out unchanged.
C29_FilteredNamesOnly ==
    /\ []((module = "pacman" /\ cmd.verb \in {"-S", "-Rs"}) =>
             \A k \in 1..Len(cmd.pkgs) : InIndex(cmd.pkgs[k]))
    /\ [][(BeginKey /\ module = "pacman" /\ CurKey \in filter_keys) =>
             /\ package_list' = CurEntry[keyIdx].val
             /\ \A k \in 1..Len(package_list') : InIndex(package_list'[k].package)]_vars

\* the name preprocess made of l-${LOCALE} is handed to pacman -S as it was
\* filtered
C29_Witness ==
    /\ module = "pacman" /\ locale = "fr" /\ pc = "running"
    /\ cmd = Cmd("-S", << <<"l", "-", "fr">> >>)

\* the dispatcher an operation belongs to by its source tag: paru when the
\* tag contains paru, none when it contains flatpak but not paru, else pacman
Owner(op) ==
    IF Contains(source_of(op), ParuWord) THEN "paru"
    ELSE IF Contains(source_of(op), FlatpakWord) THEN "none"
    ELSE "pacman"

\* operations whose tag names both backends, in either order
MixedOps ==
    { << KV("install", <<Str(NameA)>>), KV("source", t) >> :
        t \in { Chars(<<"P", "a", "r", "u", "-", "f", "l", "a", "t", "p", "a", "k">>),
                Chars(<<"F", "l", "a", "t", "p", "a", "k", "-", "p", "a", "r", "u">>) } }

\* C30: the two dispatchers select disjoint sets of operations: one whose
\* source tag contains paru is taken by paru only, one whose tag contains
\* flatpak but not paru by neither, and every other one by pacman only.  This
\* holds of every operation the list about to be read may hold, and of the
\* list each dispatcher goes on with.
C30_DisjointSelection ==
    /\ [](pc = "load" =>
             \A op \in Operations \cup MixedOps :
                /\ pacman_selects(op) <=> Owner(op) = "pacman"
                /\ paru_selects(op) <=> Owner(op) = "paru"
                /\ ~(pacman_selects(op) /\ paru_selects(op)))
    /\ [][Select =>
             LET mine == SelectSeq(operations, LAMBDA op : Owner(op) = module)
             IN  operations' = IF module = "pacman" THEN mine
                               ELSE paru_total_arg(mine, locale)]_vars

\* pacman has taken the one operation of a list of two that is tagged net
C30_Witness ==
    /\ module = "pacman" /\ pc = "index"
    /\ Len(operations) = 1
    /\ source_of(operations[1]) = <<"n", "e", "t">>

InHostIndex(name) == name \in HostPkgs \/ name \in HostGroups

\* C31: in the pacstrap run pacstrap is invoked at most once, only after both
\* queries of the repository index succeeded, and only with a non-empty list
\* of names that are all in the index; a failed database sync never ends the
\* run; and when the filter leaves nothing the run returns success without
\* invoking pacstrap.
C31_PacstrapOnce ==
    /\ [](cmd.verb = "pacstrap" =>
             /\ cmd.pkgs # <<>>
             /\ \A k \in 1..Len(cmd.pkgs) : InHostIndex(cmd.pkgs[k]))
    /\ []((pc = "done" /\ call.who = "index" /\ call.ret = "ok") =>
             (result = Success /\ package_list = <<>> /\ cmd.verb # "pacstrap"))
    /\ [][/\ (cmd'.verb = "pacstrap" /\ cmd.verb # "pacstrap") =>
                /\ call.who = "index" /\ call.ret = "ok" /\ call.inv = 2
                /\ Len(cmd'.pkgs) = Len(package_list)
          /\ cmd.verb = "pacstrap" => cmd' = cmd
          /\ (pc = "syncing" /\ pc' # "syncing") =>
                (pc' = "index" /\ result' = Running)
          /\ (pc = "index" /\ call'.ret = "ok" /\ package_list' = <<>>) =>
                (pc' = "done" /\ result' = Success /\ cmd'.verb # "pacstrap")]_vars

\* pacstrap runs with two names of the index although the sync before it failed
C31_Witness ==
    /\ pc = "running" /\ cmd.verb = "pacstrap" /\ hist.tryFail
    /\ cmd.pkgs = << NameA, <<"linux">> >>

====
